---------------------------- MODULE Spec2Model ----------------------------
(***************************************************************************)
(* simdCalloc.h: calloc_simd, round_to_alignment and simd_clear_mem.       *)
(*                                                                         *)
(* size_t is modelled as an unsigned word of WordBits bits and int as a    *)
(* two's complement word of IntBits bits (IntBits < WordBits, as 32 < 64   *)
(* on the LP64 targets the header is built for).  The alignments and the   *)
(* register widths are the program's own (64, 32, 16, 8).                  *)
(***************************************************************************)
EXTENDS Integers, Naturals, Sequences, FiniteSets

\* ------------------------------------------------------------------------
\* Bounds of the model
\* ------------------------------------------------------------------------

\* width of size_t, in bits
WordBits == 9

\* width of int, in bits
IntBits == 3

\* calloc_simd is called with items in 0..MaxItems
MaxItems == 3

\* sizes 0..MaxSmall are tried
MaxSmall == 17

\* sizes within MaxNear below SIZE_MAX \div k (k in 1..MaxItems) are tried
MaxNear == 64

\* the allocator hands out the addresses k * alignment, k in 1..MaxBlocks
MaxBlocks == 1

\* ------------------------------------------------------------------------
\* Machine arithmetic
\* ------------------------------------------------------------------------

RECURSIVE Pow2(_)
Pow2(n) == IF n = 0 THEN 1 ELSE 2 * Pow2(n - 1)

WordMod == Pow2(WordBits)

SIZE_MAX == WordMod - 1

INT_MAX == Pow2(IntBits - 1) - 1

INT_MIN == 0 - Pow2(IntBits - 1)

NULL == 0

\* conversion of an integer to size_t (C11 6.3.1.3: reduced modulo SIZE_MAX+1)
ToSizeT(x) == x % WordMod

\* size_t arithmetic wraps around
AddW(a, b) == (a + b) % WordMod

SubW(a, b) == (a - b) % WordMod

MulW(a, b) == (a * b) % WordMod

DivW(a, b) == a \div b

\* i++ on an int.  At INT_MAX the increment overflows, which is undefined:
\* a build that keeps i in an int register wraps it to INT_MIN, a build that
\* widens the induction variable to the width of vectorSteps counts on.
IntIncrement(i) == IF i = INT_MAX THEN {INT_MIN, i + 1} ELSE {i + 1}

\* ------------------------------------------------------------------------
\* Build profiles and inputs
\* ------------------------------------------------------------------------

Profiles == {"AVX512F", "AVX2", "SSE2", "NONE"}

Alignments == {16, 32, 64}

Items == 0..MaxItems

Sizes ==
    (0..MaxSmall)
    \cup { s \in 0..SIZE_MAX :
             \E k \in 1..MaxItems :
                /\ s <= (SIZE_MAX \div k) + 1
                /\ s >= (SIZE_MAX \div k) - MaxNear }

\* what the fresh block holds before it is cleared: aligned_alloc does not
\* initialise it
Fills == {0, 255}


\* ------------------------------------------------------------------------
\* State
\* ------------------------------------------------------------------------

VARIABLES
    profile,      \* the vector profile the header was compiled for
    pc,           \* position of the running call
    caller,       \* the function that was called
    items,        \* calloc_simd: argument
    size,         \* calloc_simd: argument
    alignment,    \* calloc_simd: local
    total,        \* calloc_simd: local
    ptr,          \* calloc_simd: local, the allocator's answer
    allocCalls,   \* the calls made to aligned_alloc: <<alignment, size>> each
    ret,          \* the value returned to the caller
    space,        \* simd_clear_mem: argument
    registerSize, \* simd_clear_mem: local
    vectorSteps,  \* simd_clear_mem: local
    i,            \* simd_clear_mem: the int counter of the vector loop
    tail,         \* simd_clear_mem: the size_t counter of the tail loop
    fill,         \* the byte value the block held before the call
    written,      \* the byte offsets (from memory) this system has stored to
    visited,      \* the chunk indices the vector loop stored, in order
    r_size,       \* round_to_alignment: argument
    r_alignment,  \* round_to_alignment: argument
    r_result,     \* round_to_alignment: returned value
    r_again       \* round_to_alignment applied to r_result

vars == << profile, pc, caller, items, size, alignment, total, ptr, allocCalls,
           ret, space, registerSize, vectorSteps, i, tail, fill, written,
           visited, r_size, r_alignment, r_result, r_again >>

callocVars == << items, size, alignment, total, ptr, allocCalls >>

clearVars == << space, registerSize, vectorSteps, i, tail, fill, written, visited >>

roundVars == << r_size, r_alignment, r_result, r_again >>

\* the byte at an offset of the block, as the caller reads it
Byte(o) == IF o \in written THEN 0 ELSE fill

\* ------------------------------------------------------------------------
\* round_to_alignment
\* ------------------------------------------------------------------------

\* plausible slips of the rounding formula
round_to_alignment_Truncating(sz, al) == MulW(DivW(sz, al), al)

round_to_alignment_NoMinusOne(sz, al) == MulW(DivW(AddW(sz, al), al), al)

\* return (size + alignment - 1) / alignment * alignment;
round_to_alignment(sz, al) == MulW(DivW(SubW(AddW(sz, al), 1), al), al)

\* ------------------------------------------------------------------------
\* calloc_simd
\* ------------------------------------------------------------------------

\* the product compared after it has wrapped: never larger than SIZE_MAX
Overflows_Wrapped(it, sz) == MulW(it, sz) > SIZE_MAX

\* items != 0 && size > __SIZE_MAX__ / items
Overflows(it, sz) == it # 0 /\ sz > DivW(SIZE_MAX, it)

\* the fallback of 8 bytes that the README mentions
AlignmentOf_Fallback8(p) ==
    CASE p = "AVX512F" -> 64
      [] p = "AVX2"    -> 32
      [] p = "SSE2"    -> 16
      [] OTHER         -> 8

\* size_t alignment = 16; #if defined(__AVX512F__) ... #endif
AlignmentOf(p) ==
    CASE p = "AVX512F" -> 64
      [] p = "AVX2"    -> 32
      [] p = "SSE2"    -> 16
      [] OTHER         -> 16

\* aligned_alloc(al, sz): NULL, or the address of a block of sz bytes that
\* is a multiple of al.  A request of zero bytes may be answered either way.
aligned_alloc(al, sz) == {NULL} \cup { k * al : k \in 1..MaxBlocks }

\* lines 37-53: the capacity check, the alignment and the rounded size
calloc_simd_entry ==
    /\ pc = "idle"
    /\ \E it \in Items, sz \in Sizes :
          /\ items' = it
          /\ size' = sz
          /\ caller' = "calloc_simd"
          /\ IF Overflows(it, sz)
             THEN /\ pc' = "done"
                  /\ ret' = NULL
                  /\ UNCHANGED << alignment, total >>
             ELSE /\ alignment' = AlignmentOf(profile)
                  /\ total' = round_to_alignment(MulW(it, sz), AlignmentOf(profile))
                  /\ pc' = "alloc"
                  /\ UNCHANGED ret
    /\ UNCHANGED << profile, ptr, allocCalls >>
    /\ UNCHANGED clearVars
    /\ UNCHANGED roundVars

\* a version that clears whatever the allocator answered
calloc_simd_alloc_NoNullCheck ==
    /\ pc = "alloc"
    /\ \E p \in aligned_alloc(alignment, total), f \in Fills :
          /\ ptr' = p
          /\ fill' = f
          /\ allocCalls' = Append(allocCalls, << alignment, total >>)
          /\ pc' = "clear"
          /\ UNCHANGED ret
    /\ UNCHANGED << profile, caller, items, size, alignment, total >>
    /\ UNCHANGED << space, registerSize, vectorSteps, i, tail, written, visited >>
    /\ UNCHANGED roundVars

\* lines 55-58: void* ptr = aligned_alloc(alignment, total); if (ptr == NULL) return NULL;
calloc_simd_alloc ==
    /\ pc = "alloc"
    /\ \E p \in aligned_alloc(alignment, total), f \in Fills :
          /\ ptr' = p
          /\ allocCalls' = Append(allocCalls, << alignment, total >>)
          /\ IF p = NULL
             THEN /\ pc' = "done"
                  /\ ret' = NULL
                  /\ UNCHANGED fill
             ELSE /\ pc' = "clear"
                  /\ fill' = f
                  /\ UNCHANGED ret
    /\ UNCHANGED << profile, caller, items, size, alignment, total >>
    /\ UNCHANGED << space, registerSize, vectorSteps, i, tail, written, visited >>
    /\ UNCHANGED roundVars

\* ------------------------------------------------------------------------
\* simd_clear_mem
\* ------------------------------------------------------------------------

\* registerSize = 64 / 32 / 16 / 8
RegisterSizeOf(p) ==
    CASE p = "AVX512F" -> 64
      [] p = "AVX2"    -> 32
      [] p = "SSE2"    -> 16
      [] OTHER         -> 8

\* lines 90-96: the locals on entry, before the first test of the vector loop
simd_clear_mem_begin(sp) ==
    /\ space' = sp
    /\ registerSize' = RegisterSizeOf(profile)
    /\ vectorSteps' = DivW(sp, RegisterSizeOf(profile))
    /\ i' = 0
    /\ pc' = "vec"

\* line 60: simd_clear_mem(ptr, total);
calloc_simd_clear ==
    /\ pc = "clear"
    /\ simd_clear_mem_begin(total)
    /\ UNCHANGED << profile, caller, ret, tail, fill, written, visited >>
    /\ UNCHANGED callocVars
    /\ UNCHANGED roundVars

\* simd_clear_mem called by a user on a buffer of sp bytes
simd_clear_mem_entry ==
    /\ pc = "idle"
    /\ \E sp \in Sizes, f \in Fills :
          /\ simd_clear_mem_begin(sp)
          /\ fill' = f
    /\ caller' = "simd_clear_mem"
    /\ UNCHANGED << profile, ret, tail, written, visited >>
    /\ UNCHANGED callocVars
    /\ UNCHANGED roundVars

\* i < vectorSteps: the int is converted to size_t for the comparison
VecLoopTest == ToSizeT(i) < vectorSteps

\* the index of the double the store starts at: i*(registerSize / 8) in
\* size_t for the vector profiles, the int i itself for the scalar loop
StoreIndex ==
    IF profile = "NONE" THEN i ELSE MulW(ToSizeT(i), DivW(registerSize, 8))

\* the bytes one store of the vector loop writes
StoreBytes == { 8 * StoreIndex + b : b \in 0..(registerSize - 1) }

\* lines 97-98 (106-107, 115-116, 122-123): one iteration of the vector loop
simd_clear_mem_store ==
    /\ pc = "vec"
    /\ VecLoopTest
    /\ written' = written \cup StoreBytes
    /\ visited' = Append(visited, i)
    /\ i' \in IntIncrement(i)
    /\ UNCHANGED << profile, pc, caller, ret, space, registerSize, vectorSteps, tail, fill >>
    /\ UNCHANGED callocVars
    /\ UNCHANGED roundVars

\* the vector loop ends; line 127: size_t i = vectorSteps * registerSize
simd_clear_mem_vec_exit ==
    /\ pc = "vec"
    /\ ~VecLoopTest
    /\ tail' = MulW(vectorSteps, registerSize)
    /\ pc' = "tail"
    /\ UNCHANGED << profile, caller, ret, space, registerSize, vectorSteps, i, fill,
                    written, visited >>
    /\ UNCHANGED callocVars
    /\ UNCHANGED roundVars

\* lines 127-128: one iteration of the tail loop
simd_clear_mem_tail ==
    /\ pc = "tail"
    /\ tail < space
    /\ written' = written \cup {tail}
    /\ tail' = AddW(tail, 1)
    /\ UNCHANGED << profile, pc, caller, ret, space, registerSize, vectorSteps, i, fill,
                    visited >>
    /\ UNCHANGED callocVars
    /\ UNCHANGED roundVars

\* line 130, and for calloc_simd line 62: return ptr;
simd_clear_mem_return ==
    /\ pc = "tail"
    /\ ~(tail < space)
    /\ pc' = "done"
    /\ ret' = IF caller = "calloc_simd" THEN ptr ELSE ret
    /\ UNCHANGED << profile, caller >>
    /\ UNCHANGED callocVars
    /\ UNCHANGED clearVars
    /\ UNCHANGED roundVars

\* ------------------------------------------------------------------------
\* round_to_alignment called by a user
\* ------------------------------------------------------------------------

round_to_alignment_entry ==
    /\ pc = "idle"
    /\ \E sz \in Sizes, al \in Alignments :
          /\ r_size' = sz
          /\ r_alignment' = al
          /\ r_result' = round_to_alignment(sz, al)
    /\ caller' = "round_to_alignment"
    /\ pc' = "rounded"
    /\ UNCHANGED << profile, ret, r_again >>
    /\ UNCHANGED callocVars
    /\ UNCHANGED clearVars

\* the result is rounded again
round_to_alignment_again ==
    /\ pc = "rounded"
    /\ r_again' = round_to_alignment(r_result, r_alignment)
    /\ pc' = "done"
    /\ UNCHANGED << profile, caller, ret, r_size, r_alignment, r_result >>
    /\ UNCHANGED callocVars
    /\ UNCHANGED clearVars

\* ------------------------------------------------------------------------
\* Specification
\* ------------------------------------------------------------------------

Init ==
    /\ profile \in Profiles
    /\ pc = "idle"
    /\ caller = "none"
    /\ items = 0
    /\ size = 0
    /\ alignment = 0
    /\ total = 0
    /\ ptr = NULL
    /\ allocCalls = << >>
    /\ ret = NULL
    /\ space = 0
    /\ registerSize = 0
    /\ vectorSteps = 0
    /\ i = 0
    /\ tail = 0
    /\ fill = 0
    /\ written = {}
    /\ visited = << >>
    /\ r_size = 0
    /\ r_alignment = 16
    /\ r_result = 0
    /\ r_again = 0

Next ==
    \/ calloc_simd_entry
    \/ calloc_simd_alloc
    \/ calloc_simd_clear
    \/ simd_clear_mem_entry
    \/ simd_clear_mem_store
    \/ simd_clear_mem_vec_exit
    \/ simd_clear_mem_tail
    \/ simd_clear_mem_return
    \/ round_to_alignment_entry
    \/ round_to_alignment_again

Spec == Init /\ [][Next]_vars

\* ------------------------------------------------------------------------
\* Properties
\* ------------------------------------------------------------------------

\* the alignment the build is documented to choose
BuildAlignment ==
    IF profile = "AVX512F" THEN 64 ELSE IF profile = "AVX2" THEN 32 ELSE 16

\* the chunk indices 0, 1, ..., n-1 in order
Chunks(n) == [ k \in 1..n |-> k - 1 ]

\* C1: when items != 0 and the product items * size does not fit size_t,
\* calloc_simd returns NULL and aligned_alloc has not been called.
C1_OverflowReturnsNull ==
    (caller = "calloc_simd" /\ items # 0 /\ items * size > SIZE_MAX)
        => (pc = "done" /\ ret = NULL /\ allocCalls = << >>)

C1_Witness ==
    /\ caller = "calloc_simd"
    /\ items = 2
    /\ size = SIZE_MAX
    /\ pc = "done"
    /\ ret = NULL

\* C2: when calloc_simd returns a block, every byte of it, from offset 0 up
\* to the length asked of the allocator, is zero.
C2_AllBytesZero ==
    (caller = "calloc_simd" /\ pc = "done" /\ ret # NULL)
        => \A o \in 0..(total - 1) : Byte(o) = 0

C4_LengthCovers ==
    (caller = "calloc_simd" /\ Len(allocCalls) > 0)
        => /\ allocCalls[1][2] >= items * size
           /\ allocCalls[1][2] % allocCalls[1][1] = 0

\* C5: when items * size fits size_t but items * size + alignment - 1 does
\* not, calloc_simd returns NULL without a call to the allocator.
C5_RoundingOverflowFails ==
    (/\ caller = "calloc_simd"
     /\ pc = "done"
     /\ items * size <= SIZE_MAX
     /\ items * size + BuildAlignment - 1 > SIZE_MAX)
        => (ret = NULL /\ allocCalls = << >>)

\* C6: when size + alignment - 1 does not overflow, round_to_alignment
\* returns the smallest multiple of alignment that is >= size.
C6_RoundsUp ==
    (caller = "round_to_alignment" /\ r_size + r_alignment - 1 <= SIZE_MAX)
        => /\ r_result >= r_size
           /\ r_result % r_alignment = 0
           /\ r_result - r_size < r_alignment

C6_Witness ==
    /\ caller = "round_to_alignment"
    /\ r_size = 17
    /\ r_alignment = 16
    /\ r_result = 32

\* C7: rounding the result of round_to_alignment again, in size_t
\* arithmetic, gives the same value.
C7_Idempotent ==
    (caller = "round_to_alignment" /\ pc = "done") => r_again = r_result

C7_Witness ==
    /\ caller = "round_to_alignment"
    /\ pc = "done"
    /\ r_size = 5
    /\ r_alignment = 32
    /\ r_result = 32
    /\ r_again = 32

\* C8: calloc_simd stores to memory only after the capacity check has
\* passed and the allocator has returned a block; a call that returns NULL
\* has stored nothing.
C8_NullMeansNoWrite ==
    caller = "calloc_simd"
        => /\ Len(allocCalls) > 0 => items * size <= SIZE_MAX
           /\ (written # {} \/ visited # << >>) => (Len(allocCalls) = 1 /\ ptr # NULL)
           /\ (pc = "done" /\ ret = NULL) => (written = {} /\ visited = << >>)

C8_Witness ==
    /\ caller = "calloc_simd"
    /\ pc = "done"
    /\ ret = NULL
    /\ Len(allocCalls) = 1
    /\ total > 0

\* C9: simd_clear_mem(memory, space) has stored to exactly the offsets
\* 0 .. space-1 when it returns.
C9_ClearsExactlySpace ==
    (caller = "simd_clear_mem" /\ pc = "done") => written = 0..(space - 1)

\* C10: the vector loop ends after exactly space / registerSize iterations,
\* having stored chunk 0, 1, ... once each.
C10_ExactIterations ==
    pc = "tail" => visited = Chunks(space \div registerSize)

=============================================================================
